---- MODULE Spec2Model ----
(***************************************************************************)
(* Model of the exam-processing pipeline: the orchestrator                 *)
(* (app/agents/orchestrator.py), the document analyzer, the two extractor  *)
(* agents with their validators, and the two backend wrappers              *)
(* (app/utils/ocr_openai.py, app/utils/ocr_gemini.py).                     *)
(*                                                                         *)
(* Texts are sequences of tokens.  A token stands for one literal piece of *)
(* text the code looks for (a LaTeX marker, a question number, ...) or for *)
(* a run of filler characters; TokLen gives its length in characters.      *)
(* Confidences are integers in units of 1/100000, so that the products of  *)
(* the validators (0.9 * 0.6 * 0.3 * 0.7 * 0.8) stay exact.                *)
(***************************************************************************)
EXTENDS Integers, Sequences, FiniteSets, TLC

VARIABLES
    pc,               \* position of process_digital_evaluation / process_exam_documents
    selected_model,   \* the selected_model argument
    q_doc, a_doc,     \* the two PDF files (question_pdf, answer_pdf)
    workflow_state,   \* self.workflow_state: steps, errors, retry_count
    attempt,          \* loop variable of _execute_agent
    task,             \* the task dict handed to the current agent
    objs,             \* the strategy dicts q_strategy / a_strategy (shared by reference)
    results,          \* the AgentResult each finished stage returned
    history,          \* agent.execution_history of each agent
    x,                \* local frame of the running extractor's execute()
    attempts,         \* every attempt of every stage actually executed (observation)
    files,            \* files present in the output folder
    response,         \* what process_exam_documents returned
    fn,               \* input and result of the pure function under test
    service           \* the server's working directory and the requests process_paper is serving

vars == <<pc, selected_model, q_doc, a_doc, workflow_state, attempt, task, objs,
          results, history, x, attempts, files, response, fn, service>>

------------------------------------------------------------------------------
(* Bounds of the model. *)

\* Largest number of pages of a document handed to the pipeline.
MaxPages == 2

\* Largest number of attempts that fail or raise in one run.
MaxFailedAttempts == 3

\* Variant of max_retries: one retry more.
MaxRetriesThree == 2 + 1

\* Program constants.
max_retries == 2

------------------------------------------------------------------------------
(* Texts. *)

Fillers == {"F10", "F60", "F100", "F200", "F500"}

TokLen(t) ==
    CASE t = "DC"  -> 14      \* \documentclass
      [] t = "BD"  -> 16      \* \begin{document}
      [] t = "ED"  -> 14      \* \end{document}
      [] t = "TT"  -> 7       \* \title{
      [] t = "MT"  -> 10      \* \maketitle
      [] t = "QN"  -> 10      \* Question 1
      [] t = "KW"  -> 4       \* What
      [] t = "MK"  -> 3       \* [5]
      [] t = "OP"  -> 4       \* A. x
      [] t = "NQ"  -> 18      \* No questions found
      [] t = "PG1" -> 14      \* === PAGE 1 ===
      [] t = "PG2" -> 14
      [] t = "PG3" -> 14
      [] t = "NL"  -> 1       \* a newline
      [] t = "FL"  -> 8       \* ```latex
      [] t = "FN"  -> 3       \* ```
      [] t = "ERQ" -> 77      \* Error extracting questions: <message>
      [] t = "ERA" -> 70      \* Error in processing: <message>
      [] t = "ERR" -> 56      \* Error: <message>
      [] t = "F10" -> 10
      [] t = "F60" -> 60
      [] t = "F100" -> 100
      [] t = "F200" -> 200
      [] t = "F500" -> 500

RECURSIVE TextLen(_)
TextLen(text) ==
    CHOOSE n \in {IF s = <<>> THEN 0 ELSE TokLen(Head(s)) + TextLen(Tail(s)) :
                     s \in {text}} : TRUE

Has(s, t) == \E i \in 1..Len(s) : s[i] = t

Count(s, t) == Cardinality({i \in 1..Len(s) : s[i] = t})

\* Index of the first occurrence of a token of T at or after position from; 0 if none.
FirstAt(s, T, from) ==
    IF \E i \in from..Len(s) : s[i] \in T
    THEN CHOOSE i \in from..Len(s) : s[i] \in T /\ \A j \in from..(i-1) : s[j] \notin T
    ELSE 0

\* The sequence s from its first to its last token that is not whitespace.
StripEnds(s) ==
    IF \A i \in 1..Len(s) : s[i] = "NL" THEN <<>>
    ELSE LET a == CHOOSE i \in 1..Len(s) : s[i] # "NL" /\ \A j \in 1..(i-1) : s[j] = "NL"
             b == CHOOSE i \in 1..Len(s) : s[i] # "NL" /\ \A j \in (i+1)..Len(s) : s[j] = "NL"
         IN SubSeq(s, a, b)

\* str.strip(): leading and trailing whitespace removed.  The text is evaluated
\* once, then stripped.
Strip(text) == CHOOSE stripped \in {StripEnds(s) : s \in {text}} : TRUE

\* text[:n]: the longest prefix of whole tokens of at most n characters (a token
\* cut by the slice is dropped, tokens being atomic).
Slice(s, n) ==
    LET ks == {k \in 0..Len(s) : TextLen(SubSeq(s, 1, k)) <= n}
        k == CHOOSE k \in ks : \A j \in ks : j <= k
    IN SubSeq(s, 1, k)

RECURSIVE Concat(_)
Concat(ss) == IF ss = <<>> THEN <<>> ELSE Head(ss) \o Concat(Tail(ss))

\* "\n".join(parts)
RECURSIVE JoinNL(_)
JoinNL(parts) ==
    IF parts = <<>> THEN <<>>
    ELSE IF Len(parts) = 1 THEN parts[1]
    ELSE parts[1] \o <<"NL">> \o JoinNL(Tail(parts))

Min(a, b) == IF a <= b THEN a ELSE b

------------------------------------------------------------------------------
(* Validators. *)

\* re.findall over question_patterns: "Question <n>" and the interrogative keywords.
QuestionMatches(s) == Count(s, "QN") + Count(s, "KW")

\* Variant of CapAtOne: the sum is not capped.
Uncapped(c) == c

\* min(confidence + bonus, 1.0)
CapAtOne(c) == Min(c, 100000)

\* The dict _validate_multipage_extraction starts from.
QuestionValidation0 ==
    [is_valid |-> TRUE, should_retry |-> FALSE, confidence |-> 90000, issues |-> <<>>]

\* Variant of SeemsShort: the length per page is checked for one page too.
SeemsShortAnyPages(s, num_pages) == TextLen(s) < num_pages * 200

\* The condition of the soft length penalty of _validate_multipage_extraction.
SeemsShort(s, num_pages) == num_pages > 1 /\ TextLen(s) < num_pages * 200

\* QuestionExtractorAgent._validate_multipage_extraction
ValidateQuestionsTail(s, num_pages) ==
    LET c0 == QuestionValidation0.confidence
        short == SeemsShort(s, num_pages)
        c1 == IF short THEN (c0 * 6) \div 10 ELSE c0
        i1 == IF short THEN <<"Content seems short">> ELSE <<>>
        nopat == QuestionMatches(s) = 0
        c2 == IF nopat THEN (c1 * 3) \div 10 ELSE c1
        i2 == IF nopat THEN Append(i1, "No clear question patterns found") ELSE i1
        few == num_pages > 1 /\ Count(s, "QN") < 2
        c3 == IF few THEN (c2 * 7) \div 10 ELSE c2
        i3 == IF few THEN Append(i2, "Only few questions found") ELSE i2
        marks == Has(s, "MK")
        c4 == IF marks THEN CapAtOne(c3 + 10000) ELSE (c3 * 8) \div 10
        i4 == IF marks THEN i3 ELSE Append(i3, "No mark allocations found")
        c5 == IF Count(s, "OP") >= 4 THEN CapAtOne(c4 + 10000) ELSE c4
        paged == (Has(s, "PG1") \/ Has(s, "PG2") \/ Has(s, "PG3")) /\ num_pages > 1
        c6 == IF paged THEN CapAtOne(c5 + 5000) ELSE c5
        i6 == IF paged THEN Append(i4, "Page-by-page extraction detected") ELSE i4
        rich == IF num_pages > 0 THEN TextLen(s) > 500 * num_pages ELSE TextLen(s) > 500
        c7 == IF rich THEN CapAtOne(c6 + 10000) ELSE c6
    IN [is_valid |-> TRUE, should_retry |-> nopat, confidence |-> c7, issues |-> i6]

\* Variant of ValidateQuestions: the length check is skipped.
ValidateQuestionsNoLength(s, num_pages) == ValidateQuestionsTail(s, num_pages)

ValidateQuestions(s, num_pages) ==
    IF s = <<>> \/ TextLen(Strip(s)) < 100
    THEN [QuestionValidation0 EXCEPT !.is_valid = FALSE, !.should_retry = TRUE,
                                     !.confidence = 10000,
                                     !.issues = Append(@, "Extracted text too short")]
    ELSE IF Has(s, "NQ")
    THEN [QuestionValidation0 EXCEPT !.is_valid = FALSE, !.should_retry = TRUE,
                                     !.confidence = 0,
                                     !.issues = Append(@, "No questions detected")]
    ELSE ValidateQuestionsTail(s, num_pages)

\* Variant of DocMatch: the pattern never matches.
DocMatchNone(s) == [found |-> FALSE, content |-> <<>>]

\* re.search(r'\\begin\{document\}(.*?)\\end\{document\}', text, re.DOTALL):
\* <<found, group(1)>>.
DocMatch(s) ==
    LET b == FirstAt(s, {"BD"}, 1)
        e == IF b = 0 THEN 0 ELSE FirstAt(s, {"ED"}, b + 1)
    IN IF e = 0 THEN [found |-> FALSE, content |-> <<>>]
       ELSE [found |-> TRUE, content |-> SubSeq(s, b + 1, e - 1)]

\* Variants of RequiredElements: the loop is skipped; a missing element adds no issue.
RequiredElementsSkipped(s, elems, v) == v

RECURSIVE RequiredElementsSilent(_, _, _)
RequiredElementsSilent(s, elems, v) ==
    IF elems = <<>> THEN v
    ELSE LET el == Head(elems)
             v1 == IF Has(s, el.tok)
                   THEN v
                   ELSE [v EXCEPT !.is_valid = FALSE, !.confidence = 30000]
         IN RequiredElementsSilent(s, Tail(elems), v1)

\* The loop over required_elements of _enhanced_validate_latex.
RECURSIVE RequiredElements(_, _, _)
RequiredElements(s, elems, v) ==
    IF elems = <<>> THEN v
    ELSE LET el == Head(elems)
             v1 == IF Has(s, el.tok)
                   THEN v
                   ELSE [v EXCEPT !.is_valid = FALSE, !.confidence = 30000,
                                  !.issues = Append(@, el.msg)]
         IN RequiredElements(s, Tail(elems), v1)

\* The dict _enhanced_validate_latex starts from.
LatexValidation0 ==
    [is_valid |-> TRUE, should_retry |-> FALSE, confidence |-> 90000, issues |-> <<>>]

\* Variant of NewValidation: the issues list of the previous call is kept.
KeptValidation(previous) == [LatexValidation0 EXCEPT !.issues = previous.issues]

\* The dict a call of _enhanced_validate_latex builds at its start, whatever the
\* previous call returned.
NewValidation(previous) == LatexValidation0

\* AnswerProcessorAgent._enhanced_validate_latex, from the dict it starts from.
ValidateLatexFrom(s, v0) ==
    IF s = <<>> \/ TextLen(Strip(s)) < 100
    THEN [v0 EXCEPT !.is_valid = FALSE, !.should_retry = TRUE, !.confidence = 10000,
                    !.issues = Append(@, "Output too short")]
    ELSE LET v1 == RequiredElements(s,
                       << [tok |-> "DC", msg |-> "Missing documentclass"],
                          [tok |-> "BD", msg |-> "Missing begin document"],
                          [tok |-> "ED", msg |-> "Missing end document"] >>, v0)
             m == DocMatch(s)
         IN IF m.found
            THEN IF TextLen(Strip(m.content)) < 50
                 THEN [v1 EXCEPT !.is_valid = FALSE, !.confidence = 40000,
                                 !.issues = Append(@, "Insufficient content in document")]
                 ELSE v1
            ELSE [v1 EXCEPT !.is_valid = FALSE, !.confidence = 20000,
                            !.issues = Append(@, "Cannot find document content")]

\* AnswerProcessorAgent._enhanced_validate_latex
ValidateLatex(s) == ValidateLatexFrom(s, NewValidation(LatexValidation0))

------------------------------------------------------------------------------
(* Document analyzer. *)

\* Size in pixels of a page of each kind, rasterized at 150 dpi.
PageKinds == {"small", "a4", "large"}

Dim(kind) ==
    CASE kind = "small" -> [w |-> 600,  h |-> 800]
      [] kind = "a4"    -> [w |-> 1240, h |-> 1754]
      [] kind = "large" -> [w |-> 2600, h |-> 3100]

\* DocumentAnalyzerAgent._assess_image_quality
AssessImageQuality(kind) ==
    LET total_pixels == Dim(kind).w * Dim(kind).h
    IN IF total_pixels < 500000 THEN "low"
       ELSE IF total_pixels > 4000000 THEN "high"
       ELSE "medium"

PageComplexity(kind) ==
    IF Dim(kind).w > 2500 /\ Dim(kind).h > 3000 THEN "high"
    ELSE IF Dim(kind).w < 1200 \/ Dim(kind).h < 1500 THEN "low"
    ELSE "medium"

PageDensity(kind) ==
    IF Dim(kind).w * Dim(kind).h > 3000000 THEN "high"
    ELSE IF Dim(kind).w * Dim(kind).h < 1000000 THEN "low"
    ELSE "medium"

\* Variant of ReduceTiers: the tier of the first page stands for the document.
ReduceTiersFirstPage(tiers) == tiers[1]

\* The reduction of the per-page tiers to the document's tier.
ReduceTiers(tiers) ==
    IF \E i \in 1..Len(tiers) : tiers[i] = "high" THEN "high"
    ELSE IF \A i \in 1..Len(tiers) : tiers[i] = "low" THEN "low"
    ELSE "medium"

\* DocumentAnalyzerAgent._assess_document_complexity_multipage
AssessComplexity(images) == ReduceTiers([i \in 1..Len(images) |-> PageComplexity(images[i])])

\* DocumentAnalyzerAgent._estimate_text_density_multipage
EstimateDensity(images) == ReduceTiers([i \in 1..Len(images) |-> PageDensity(images[i])])

\* The dict returned when the PDF could not be converted; the keys it lacks read "none".
ErrorAnalysis(total_pages) ==
    [total_pages |-> total_pages, pages_analyzed |-> 0, file_size_mb |-> 0,
     has_size |-> FALSE, image_quality |-> "none", complexity |-> "none",
     text_density |-> "none", confidence |-> 0, error |-> TRUE]

\* DocumentAnalyzerAgent._analyze_document_multipage.  count_ok / convert_ok say
\* whether the two convert_from_path calls return (TRUE) or raise (FALSE).
AnalyzeDocument(doc, count_ok, convert_ok) ==
    LET total_pages == IF count_ok THEN Len(doc.pages) ELSE 1
        pages_to_analyze == Min(3, total_pages)
        images == SubSeq(doc.pages, 1, Min(pages_to_analyze, Len(doc.pages)))
    IN IF ~convert_ok THEN ErrorAnalysis(1)
       ELSE IF images = <<>> THEN ErrorAnalysis(0)
       ELSE [total_pages |-> total_pages, pages_analyzed |-> Len(images),
             file_size_mb |-> doc.size_mb, has_size |-> TRUE,
             image_quality |-> AssessImageQuality(images[1]),
             complexity |-> AssessComplexity(images),
             text_density |-> EstimateDensity(images),
             confidence |-> 85000, error |-> FALSE]

\* The seven rules of _determine_processing_strategy_research_based, in order.
Strategy0 ==
    [recommended_model |-> "openai", dpi_setting |-> 300, preprocessing_needed |-> FALSE,
     retry_strategy |-> "fallback_model", multi_page_strategy |-> "batch_process",
     reasoning |-> <<>>]

Say(s, why) == [s EXCEPT !.reasoning = Append(@, why)]

Rule1PageCount(s, a, file_type) ==
    IF a.total_pages > 10
    THEN Say([s EXCEPT !.recommended_model = "gemini",
                       !.multi_page_strategy = "page_by_page_fallback"], "Large document")
    ELSE IF a.total_pages > 5
    THEN IF file_type = "question_paper"
         THEN Say([s EXCEPT !.recommended_model = "openai"], "Multi-page questions")
         ELSE Say([s EXCEPT !.recommended_model = "gemini"], "Multi-page answers")
    ELSE s

Rule2DocumentType(s, a, file_type) ==
    IF file_type = "question_paper"
    THEN IF a.total_pages <= 3
         THEN Say([s EXCEPT !.recommended_model = "openai"], "Short question paper")
         ELSE Say(s, "Long question paper")
    ELSE IF file_type = "answer_sheet"
    THEN IF a.complexity = "high" /\ a.total_pages <= 5
         THEN Say([s EXCEPT !.recommended_model = "openai"], "Complex handwriting")
         ELSE Say([s EXCEPT !.recommended_model = "gemini"], "Answer sheets")
    ELSE s

Rule3ImageQuality(s, a) ==
    IF a.image_quality = "low"
    THEN [Say([s EXCEPT !.recommended_model = "gemini"], "Poor image quality")
            EXCEPT !.dpi_setting = 400]
    ELSE IF a.image_quality = "high" /\ a.total_pages <= 5
    THEN Say([s EXCEPT !.recommended_model = "openai"], "High quality images")
    ELSE s

Rule4ComplexityDensity(s, a) ==
    LET complexity == IF a.complexity = "none" THEN "medium" ELSE a.complexity
        text_density == IF a.text_density = "none" THEN "medium" ELSE a.text_density
    IN IF complexity = "high" /\ text_density = "high" /\ a.total_pages <= 3
       THEN Say([s EXCEPT !.recommended_model = "openai"], "High complexity + density")
       ELSE IF complexity = "high" /\ a.total_pages > 5
       THEN Say([s EXCEPT !.recommended_model = "gemini"], "High complexity + many pages")
       ELSE s

FileSize(a) == IF a.has_size THEN a.file_size_mb ELSE 0

Rule5FileSize(s, a) ==
    IF FileSize(a) > 50
    THEN Say([s EXCEPT !.recommended_model = "gemini"], "Large file size")
    ELSE s

CostTriggered(a) == a.total_pages > 15 \/ (a.total_pages > 8 /\ FileSize(a) > 20)

\* Variant of Rule6CostOptimization: the override picks openai.
Rule6ToOpenAI(s, a) ==
    IF CostTriggered(a)
    THEN Say([s EXCEPT !.recommended_model = "openai"], "Cost optimization")
    ELSE s

Rule6CostOptimization(s, a) ==
    IF CostTriggered(a)
    THEN Say([s EXCEPT !.recommended_model = "gemini"], "Cost optimization")
    ELSE s

\* Variant of Rule7MultiPage: the mode set by the earlier rules is kept.
Rule7MultiPageKeep(s, a) == s

Rule7MultiPage(s, a) ==
    IF a.total_pages > 1
    THEN IF s.recommended_model = "openai" /\ a.total_pages > 8
         THEN Say([s EXCEPT !.multi_page_strategy = "batch_with_page_fallback"],
                  "OpenAI with page-by-page fallback")
         ELSE IF s.recommended_model = "gemini"
         THEN Say([s EXCEPT !.multi_page_strategy = "batch_process"],
                  "Gemini batch processing")
         ELSE s
    ELSE s

\* Variant of DetermineStrategy: the file-size rule is applied first.
DetermineStrategyFileSizeFirst(a, file_type) ==
    LET s0 == Rule5FileSize(Strategy0, a)
        s1 == Rule1PageCount(s0, a, file_type)
        s2 == Rule2DocumentType(s1, a, file_type)
        s3 == Rule3ImageQuality(s2, a)
        s4 == Rule4ComplexityDensity(s3, a)
        s6 == Rule6CostOptimization(s4, a)
    IN Rule7MultiPage(s6, a)

\* DocumentAnalyzerAgent._determine_processing_strategy_research_based
DetermineStrategy(a, file_type) ==
    LET s1 == Rule1PageCount(Strategy0, a, file_type)
        s2 == Rule2DocumentType(s1, a, file_type)
        s3 == Rule3ImageQuality(s2, a)
        s4 == Rule4ComplexityDensity(s3, a)
        s5 == Rule5FileSize(s4, a)
        s6 == Rule6CostOptimization(s5, a)
    IN Rule7MultiPage(s6, a)

\* AgentResult.__init__ (the timestamp is not modelled)
AgentResult(success, data, error, confidence) ==
    [success |-> success, data |-> data, error |-> error, confidence |-> confidence]

NoData == [kind |-> "none"]

\* What DocumentAnalyzerAgent.execute returns.  raised: an exception inside its try
\* block (for instance os.path.basename or print failing).
AnalyzerExecute(doc, file_type, count_ok, convert_ok, raised) ==
    IF raised
    THEN AgentResult(FALSE, NoData, "exception", 100000)
    ELSE LET analysis == AnalyzeDocument(doc, count_ok, convert_ok)
             strategy == DetermineStrategy(analysis, file_type)
         IN AgentResult(TRUE,
                [kind |-> "analysis", analysis |-> analysis, strategy |-> strategy,
                 file_type |-> file_type],
                "none", analysis.confidence)

------------------------------------------------------------------------------
(* Backend wrappers (app/utils/ocr_gemini.py, app/utils/ocr_openai.py).     *)
(* The outcome of one API call is a record: kind "text" with the text the   *)
(* model returned, "api_raise" when the API call raises, "pre_raise" when   *)
(* the wrapper raises before its try block (configure_gemini, Image.open,   *)
(* encode_image_base64).                                                    *)

TextOutcome(t) == [kind |-> "text", text |-> t]
ApiRaise == [kind |-> "api_raise", text |-> <<>>]
PreRaise == [kind |-> "pre_raise", text |-> <<>>]

\* The templated document shared by the three fallback builders.
FallbackDoc(content, question_text, limit) ==
    <<"DC", "F100", "NL", "BD", "NL", "TT", "F60", "MT", "NL", "F200">>
        \o (IF question_text = <<>> THEN <<"F10">> ELSE question_text)
        \o <<"F60">>
        \o (IF content = <<>> THEN <<"F10">> ELSE Slice(content, limit))
        \o <<"F200", "ED">>

\* _create_gemini_fallback_latex
GeminiFallbackLatex(content, question_text) == FallbackDoc(content, question_text, 1500)

\* _create_openai_enhanced_fallback
OpenAIFallbackLatex(content, question_text) == FallbackDoc(content, question_text, 1500)

\* AnswerProcessorAgent._create_structured_fallback
StructuredFallback(original_output, question_text) ==
    FallbackDoc(original_output, question_text, 1000)

\* The removal of markdown code fences both cleaners start with.
Unfence(s) ==
    IF Has(s, "FL")
    THEN LET a == FirstAt(s, {"FL"}, 1)
             b == FirstAt(s, {"FL", "FN"}, a + 1)
         IN Strip(SubSeq(s, a + 1, IF b = 0 THEN Len(s) ELSE b - 1))
    ELSE IF Count(s, "FN") >= 2
    THEN LET a == FirstAt(s, {"FN"}, 1)
             b == FirstAt(s, {"FN"}, a + 1)
         IN Strip(SubSeq(s, a + 1, b - 1))
    ELSE s

\* _clean_gemini_latex_output
CleanGemini(s) == IF s = <<>> THEN <<>> ELSE Strip(Unfence(s))

\* _enhanced_clean_openai_output
CleanOpenAI(s) ==
    IF s = <<>> THEN <<>>
    ELSE LET u == Unfence(s)
             d == FirstAt(u, {"DC"}, 1)
             e == IF d = 0 THEN 0 ELSE FirstAt(u, {"ED"}, d + 1)
         IN IF u # <<>> /\ u[1] # "DC" /\ e # 0 THEN Strip(SubSeq(u, d, e)) ELSE Strip(u)

\* _validate_gemini_latex_structure / _validate_openai_latex_structure
LatexStructureOk(s) == \A t \in {"DC", "BD", "ED", "TT", "MT"} : Has(s, t)

\* gemini_extract_answer_latex, from the API call on
GeminiExtractAnswer(o, question_text) ==
    IF o.kind = "api_raise" THEN GeminiFallbackLatex(<<"ERR">>, question_text)
    ELSE LET latex_text == CleanGemini(Strip(o.text))
         IN IF LatexStructureOk(latex_text) THEN latex_text
            ELSE GeminiFallbackLatex(latex_text, question_text)

\* gpt4o_extract_answer_latex, from the API call on
OpenAIExtractAnswer(o, question_text) ==
    IF o.kind = "api_raise" THEN OpenAIFallbackLatex(<<"ERR">>, question_text)
    ELSE LET latex_output == CleanOpenAI(o.text)
         IN IF LatexStructureOk(latex_output) THEN latex_output
            ELSE OpenAIFallbackLatex(latex_output, question_text)

\* The backend a model hint selects: "gemini" selects Gemini, anything else OpenAI.
BackendOf(model) == IF model = "gemini" THEN "gemini" ELSE "openai"

\* AnswerProcessorAgent._process_answers_debug
ProcessAnswers(model, o, question_text) ==
    IF o.kind = "pre_raise" THEN <<"ERA">>
    ELSE IF model = "gemini" THEN GeminiExtractAnswer(o, question_text)
    ELSE OpenAIExtractAnswer(o, question_text)

\* _validate_multi_page_extraction (Gemini)
GeminiMultiPageOk(s, num_pages) ==
    /\ ~(s = <<>> \/ TextLen(Strip(s)) < 100)
    /\ ~(num_pages > 1 /\ TextLen(s) < num_pages * 200)
    /\ ~(num_pages > 1 /\ Count(s, "QN") < 2)

\* _is_valid_openai_multi_page_extraction
OpenAIMultiPageOk(s, num_pages) ==
    /\ ~(s = <<>> \/ TextLen(Strip(s)) < 100)
    /\ ~(num_pages > 1 /\ TextLen(s) < num_pages * 150)

MultiPageOk(backend, s, num_pages) ==
    IF backend = "gemini" THEN GeminiMultiPageOk(s, num_pages)
    ELSE OpenAIMultiPageOk(s, num_pages)

\* The resolution pdf_to_images rasterizes every document at.
pdf_to_images_dpi == 350

PageMarker(i) == CASE i = 1 -> "PG1" [] i = 2 -> "PG2" [] OTHER -> "PG3"

\* Variant of PageCollect: the answer of a page is kept whatever its length.
PageCollectAnyLength(acc, i, o) ==
    IF o.kind = "text" THEN acc \o << <<"NL", PageMarker(i)>>, Strip(o.text) >> ELSE acc

\* One iteration of the loop of _extract_questions_page_by_page /
\* _openai_extract_page_by_page: the parts collected after page i answered o.
PageCollect(acc, i, o) ==
    LET page_result == Strip(o.text)
    IN IF o.kind = "text" /\ page_result # <<>> /\ TextLen(page_result) > 50
       THEN acc \o << <<"NL", PageMarker(i)>>, page_result >>
       ELSE acc

------------------------------------------------------------------------------
(* Orchestrator (app/agents/orchestrator.py). *)

Agents == {"analyzer", "question_extractor", "answer_processor", "latex_compiler"}

Stages == <<"analyze_q", "analyze_a", "extract_q", "extract_a", "compile">>

StageIndex(p) == CHOOSE i \in 1..5 : Stages[i] = p

\* Variant of StageMessage: every stage reports the message of the first.
StageMessageSame(p) == "Question document analysis failed"

\* The message process_exam_documents puts in the error response of each stage.
StageMessage(p) ==
    CASE p = "analyze_q" -> "Question document analysis failed"
      [] p = "analyze_a" -> "Answer document analysis failed"
      [] p = "extract_q" -> "Question extraction failed"
      [] p = "extract_a" -> "Answer processing failed"
      [] p = "compile"   -> "LaTeX compilation failed"

NoStrategy == [Strategy0 EXCEPT !.recommended_model = "none"]

NoResult == AgentResult(FALSE, NoData, "unset", 0)

\* The frame of an extractor's execute(): where it stands, the arguments of the call
\* in flight, and - as a record of what it did so far - the calls it made to a
\* wrapper (chain) and the verdicts of the validations it ran (verdicts).
IdleFrame ==
    [phase |-> "idle", at |-> "none", n |-> 0, model |-> "none", backend |-> "none",
     prompt |-> "none", page |-> 0, acc |-> <<>>, chain |-> <<>>, verdicts |-> <<>>]

\* A call of execute() to a wrapper: the backend the model argument selects and the
\* prompt argument.
Call(phase, model, prompt) ==
    [phase |-> phase, backend |-> BackendOf(model), prompt |-> prompt]

Verdict(v) == [is_valid |-> v.is_valid, should_retry |-> v.should_retry]

\* The task dicts process_exam_documents builds.  A strategy is held by reference:
\* "q" and "a" name the dicts q_strategy and a_strategy.
AnalyzerTask(file, file_type) ==
    [agent |-> "analyzer", file |-> file, file_type |-> file_type, strategy |-> "none"]

ExtractorTask(agent, file) ==
    [agent |-> agent, file |-> file, file_type |-> "none",
     strategy |-> IF agent = "question_extractor" THEN "q" ELSE "a"]

CompilerTask ==
    [agent |-> "latex_compiler", file |-> "none", file_type |-> "none", strategy |-> "none"]

HintOf(t, o) == IF t.strategy = "none" THEN "none" ELSE o[t.strategy].recommended_model

\* Variants of SwapModel: the retry keeps the model; the retry always picks openai.
SwapModelKeep(current_model) == current_model

SwapModelOpenAI(current_model) == "openai"

\* The expression of _modify_task_for_retry that picks the model of the retry.
SwapModel(current_model) == IF current_model = "openai" THEN "gemini" ELSE "openai"

\* ExamProcessingOrchestrator._modify_task_for_retry: the task is copied (shallow)
\* and, for the two extractors, the strategy dict it shares with the original task
\* is written through.
ModifyTaskForRetry(agent_name, t, o) ==
    IF agent_name \in {"question_extractor", "answer_processor"} /\ t.strategy # "none"
    THEN [task |-> t,
          objs |-> [o EXCEPT ![t.strategy].recommended_model = SwapModel(@)]]
    ELSE [task |-> t, objs |-> o]

\* ExamProcessingOrchestrator._log_workflow_step
LogWorkflowStep(ws, agent_name, result, att) ==
    [ws EXCEPT !.steps = Append(@, [agent |-> agent_name, attempt |-> att,
                                    success |-> result.success,
                                    confidence |-> result.confidence,
                                    error |-> result.error])]

\* BaseAgent.log_execution
LogExecution(h, agent_name, t, result) ==
    [h EXCEPT ![agent_name] = Append(@, [task |-> t, success |-> result.success,
                                         error |-> result.error,
                                         confidence |-> result.confidence])]

\* Variant of CreateErrorResponse: the response carries a fresh workflow state.
CreateErrorResponseFresh(message, error, ws) ==
    [success |-> FALSE, error |-> message, details |-> error,
     workflow_state |-> [ws EXCEPT !.steps = <<>>]]

\* ExamProcessingOrchestrator._create_error_response
CreateErrorResponse(message, error, ws) ==
    [success |-> FALSE, error |-> message, details |-> error, workflow_state |-> ws]

\* The success response of process_exam_documents.
SuccessResponse(compile_result, ws) ==
    [success |-> TRUE, pdf_filename |-> compile_result.data.filename,
     pdf_path |-> compile_result.data.pdf_path, workflow_state |-> ws,
     model_used |-> selected_model]

\* process_exam_documents after _execute_agent returned res for the current stage:
\* the error response, or the task of the next stage.
StageReturns(res, ws, o) ==
    IF ~res.success
    THEN /\ response' = CreateErrorResponse(StageMessage(pc), res.error, ws)
         /\ pc' = "returned"
         /\ objs' = o
         /\ UNCHANGED <<attempt, task, results>>
    ELSE /\ response' = response
         /\ attempt' = 0
         /\ CASE pc = "analyze_q" ->
                   /\ pc' = "analyze_a"
                   /\ results' = [results EXCEPT !.q_analysis = res]
                   /\ task' = AnalyzerTask("a", "answer_sheet")
                   /\ objs' = o
              [] pc = "analyze_a" ->
                   /\ pc' = "extract_q"
                   /\ results' = [results EXCEPT !.a_analysis = res]
                   /\ task' = ExtractorTask("question_extractor", "q")
                   /\ objs' = [o EXCEPT !.q = [results.q_analysis.data.strategy
                                                 EXCEPT !.recommended_model = selected_model]]
              [] pc = "extract_q" ->
                   /\ pc' = "extract_a"
                   /\ results' = [results EXCEPT !.question = res]
                   /\ task' = ExtractorTask("answer_processor", "a")
                   /\ objs' = [o EXCEPT !.a = [results.a_analysis.data.strategy
                                                 EXCEPT !.recommended_model = selected_model]]
              [] pc = "extract_a" ->
                   /\ pc' = "compile"
                   /\ results' = [results EXCEPT !.answer = res]
                   /\ task' = CompilerTask
                   /\ objs' = o
              [] pc = "compile" ->
                   /\ pc' = "cleanup"
                   /\ results' = [results EXCEPT !.compile = res]
                   /\ task' = task
                   /\ objs' = o

\* What _execute_agent does with an exception of agent.execute: nothing is logged;
\* the last attempt turns it into a failed result.
ExceptionInAttempt ==
    /\ UNCHANGED <<workflow_state, history>>
    /\ IF attempt >= max_retries
       THEN StageReturns(AgentResult(FALSE, NoData, "exception", 100000),
                         workflow_state, objs)
       ELSE /\ attempt' = attempt + 1
            /\ UNCHANGED <<pc, task, objs, results, response>>

\* What _execute_agent does with the result agent.execute returned.
ResultOfAttempt(res) ==
    \E ws \in {LogWorkflowStep(workflow_state, task.agent, res, attempt + 1)} :
       /\ history' = LogExecution(history, task.agent, task, res)
       /\ workflow_state' = ws
       /\ IF res.success THEN StageReturns(res, ws, objs)
          ELSE IF attempt < max_retries
          THEN LET m == ModifyTaskForRetry(task.agent, task, objs)
               IN /\ task' = m.task
                  /\ objs' = m.objs
                  /\ attempt' = attempt + 1
                  /\ UNCHANGED <<pc, results, response>>
          ELSE StageReturns(res, ws, objs)

\* What the trace of attempts keeps of an AgentResult: the outcome, the verdict of
\* the validation in its data, and whether that is the verdict of the structured fallback.
Brief(res) ==
    LET validated == res.data.kind \in {"questions", "answers"}
    IN [success |-> res.success, confidence |-> res.confidence, error |-> res.error,
        kind |-> res.data.kind,
        is_valid |-> IF validated THEN res.data.validation.is_valid ELSE res.success,
        validation_confidence |-> IF validated THEN res.data.validation.confidence
                                  ELSE res.confidence,
        fallback |-> validated /\ res.data.validation.issues = <<"Used structured fallback">>]

\* One iteration of the loop of ExamProcessingOrchestrator._execute_agent, from the
\* point where agent.execute returned res or raised.
FailedAttempts == Cardinality({i \in 1..Len(attempts) : attempts[i].outcome # "success"})

ExecuteAgentStep(result, raised) ==
    \E res \in {result} :
       /\ (raised \/ ~res.success) => FailedAttempts < MaxFailedAttempts
       /\ attempts' = Append(attempts,
              [stage |-> pc, attempt |-> attempt + 1, task |-> task,
               hint |-> HintOf(task, objs),
               outcome |-> IF raised THEN "raised"
                           ELSE IF res.success THEN "success" ELSE "failure",
               result |-> IF raised THEN Brief(NoResult) ELSE Brief(res)])
       /\ x' = IdleFrame
       /\ IF raised THEN ExceptionInAttempt ELSE ResultOfAttempt(res)

------------------------------------------------------------------------------
(* Inputs of the model. *)

\* selected_model is any string; "other" stands for one that names no backend.
Models == {"gemini", "openai", "other"}

\* The question papers and the answer sheets handed to the pipeline.
QDocs == {[pages |-> [i \in 1..n |-> "a4"], size_mb |-> 1] : n \in 0..MaxPages}

ADocs == {[pages |-> <<"small", "large">>, size_mb |-> 1]}

DocOf(file) == IF file = "q" THEN q_doc ELSE a_doc

\* Texts a backend may answer a question prompt with.
QGood  == <<"QN", "F500", "MK", "QN", "F500">>
QShort == <<"QN", "F60">>

QuestionBatchOutcomes ==
    {PreRaise, ApiRaise} \cup {TextOutcome(t) : t \in {QGood, QShort}}

\* Texts a backend may answer a page prompt with.
PGood == <<"QN", "F100">>
PTiny == <<"F10">>

PageOutcomes == {ApiRaise} \cup {TextOutcome(t) : t \in {PGood, PTiny}}

\* Texts a backend may answer an answer prompt with.
AGood   == <<"DC", "F60", "BD", "TT", "F60", "MT", "F200", "ED">>
AThin   == <<"DC", "F100", "BD", "TT", "MT", "ED">>
AFenced == <<"F10", "FL", "NL">> \o AGood \o <<"NL", "FN">>

AnswerOutcomes ==
    {PreRaise, ApiRaise} \cup {TextOutcome(t) : t \in {AGood, AThin, AFenced}}

\* Files of the output folder: <<base name, extension>>.
OutputBase == "student_answers"

cleanup_extensions ==
    {".aux", ".log", ".tex", ".fdb_latexmk", ".fls", ".synctex.gz", ".out", ".toc"}

------------------------------------------------------------------------------
(* process_digital_evaluation and process_exam_documents. *)

\* No request is being served and the working directory holds no upload.
NoService ==
    [disk |-> [temp_question |-> <<>>, temp_answer |-> <<>>,
               tmp_question |-> <<>>, tmp_answer |-> <<>>],
     run |-> <<>>]

NoTask == [agent |-> "none", file |-> "none", file_type |-> "none", strategy |-> "none"]

Init ==
    /\ service = NoService
    /\ pc = "entry"
    /\ selected_model \in Models
    /\ q_doc \in QDocs
    /\ a_doc \in ADocs
    /\ workflow_state = [steps |-> <<>>, errors |-> <<>>, retry_count |-> 0]
    /\ attempt = 0
    /\ task = NoTask
    /\ objs = [q |-> NoStrategy, a |-> NoStrategy]
    /\ results = [q_analysis |-> NoResult, a_analysis |-> NoResult, question |-> NoResult,
                  answer |-> NoResult, compile |-> NoResult]
    /\ history = [a \in Agents |-> <<>>]
    /\ x = IdleFrame
    /\ attempts = <<>>
    /\ files = {<<"other", ".tex">>, <<OutputBase, ".out">>}
    /\ response = [pending |-> TRUE]
    /\ fn = [op |-> "none"]

\* process_digital_evaluation up to the first stage: os.makedirs may raise; otherwise
\* process_exam_documents sets up workflow_state and the first task.
Entry ==
    /\ pc = "entry"
    /\ \/ /\ pc' = "entry_raised"
          /\ UNCHANGED <<workflow_state, task>>
       \/ /\ pc' = "analyze_q"
          /\ workflow_state' = [steps |-> <<>>, errors |-> <<>>, retry_count |-> 0]
          /\ task' = AnalyzerTask("q", "question_paper")
    /\ UNCHANGED <<selected_model, q_doc, a_doc, attempt, objs, results, history, x,
                   attempts, files, response, fn, service>>

\* One attempt of an analysis stage.
AnalyzerAttempt ==
    /\ pc \in {"analyze_q", "analyze_a"}
    /\ \E count_ok \in {TRUE}, convert_ok \in BOOLEAN, raised \in BOOLEAN :
          ExecuteAgentStep(
              AnalyzerExecute(DocOf(task.file), task.file_type, count_ok, convert_ok, raised),
              FALSE)
    /\ UNCHANGED <<selected_model, q_doc, a_doc, files, fn, service>>

\* The head of an extractor's execute: pdf_to_images, then the primary call is issued.
ExtractorStart ==
    /\ pc \in {"extract_q", "extract_a"}
    /\ x.phase = "idle"
    /\ \/ ExecuteAgentStep(AgentResult(FALSE, NoData, "exception", 100000), FALSE)
       \/ /\ LET prompt == IF pc = "extract_q" THEN "question_prompt" ELSE "debug_prompt"
                 c == Call("primary", HintOf(task, objs), prompt)
             IN x' = [phase |-> "primary", at |-> "batch",
                      n |-> Len(DocOf(task.file).pages),
                      model |-> HintOf(task, objs), backend |-> c.backend,
                      prompt |-> prompt, page |-> 0, acc |-> <<>>,
                      chain |-> <<c>>, verdicts |-> <<>>]
          /\ UNCHANGED <<pc, workflow_state, attempt, task, objs, results, history,
                         attempts, response>>
    /\ UNCHANGED <<selected_model, q_doc, a_doc, files, fn, service>>

\* fallback_model of QuestionExtractorAgent.execute
FallbackModel(model) == IF model = "openai" THEN "gemini" ELSE "openai"

\* The backend the enhanced attempt of QuestionExtractorAgent.execute calls.
EnhancedModel(model) == model

\* Variant of ExtractorResult: the confidence is left at the default of AgentResult.
ExtractorResultDefaultConfidence(data, validation) ==
    AgentResult(validation.is_valid, data, "none", 100000)

\* The AgentResult the two extractors return at the end of execute():
\* AgentResult(success=validation["is_valid"], data=..., confidence=validation["confidence"]).
ExtractorResult(data, validation) ==
    AgentResult(validation.is_valid, data, "none", validation.confidence)

\* QuestionExtractorAgent.execute from the point where a wrapper returned text:
\* validation, then the next call of the chain or the result.
QuestionContinue(text) ==
    \E v \in {ValidateQuestions(text, x.n)} :
       IF x.phase = "primary" /\ ~v.is_valid /\ v.should_retry
       THEN /\ LET c == Call("secondary", FallbackModel(x.model), "question_prompt")
               IN x' = [x EXCEPT !.phase = "secondary", !.at = "batch", !.page = 0,
                                 !.acc = <<>>, !.prompt = c.prompt, !.backend = c.backend,
                                 !.chain = Append(@, c),
                                 !.verdicts = Append(@, Verdict(v))]
            /\ UNCHANGED <<pc, workflow_state, attempt, task, objs, results, history,
                           attempts, response>>
       ELSE IF x.phase = "secondary" /\ ~v.is_valid
       THEN /\ LET c == Call("enhanced", EnhancedModel(x.model), "enhanced_prompt")
               IN x' = [x EXCEPT !.phase = "enhanced", !.at = "batch", !.page = 0,
                                 !.acc = <<>>, !.prompt = c.prompt, !.backend = c.backend,
                                 !.chain = Append(@, c),
                                 !.verdicts = Append(@, Verdict(v))]
            /\ UNCHANGED <<pc, workflow_state, attempt, task, objs, results, history,
                           attempts, response>>
       ELSE ExecuteAgentStep(
                ExtractorResult(
                    [kind |-> "questions", question_text |-> text, model_used |-> x.model,
                     validation |-> v, pages_processed |-> x.n], v),
                FALSE)

\* The answer of the backend to the call over all pages, in gemini_extract_question_text
\* or gpt4o_extract_questions.
QuestionBatchRespond ==
    /\ pc = "extract_q"
    /\ x.at = "batch"
    /\ \E o \in QuestionBatchOutcomes :
          IF o.kind = "pre_raise"
          THEN ExecuteAgentStep(AgentResult(FALSE, NoData, "exception", 100000), FALSE)
          ELSE IF o.kind = "api_raise" THEN QuestionContinue(<<"ERQ">>)
          ELSE IF MultiPageOk(x.backend, Strip(o.text), x.n)
          THEN \E result \in {Strip(o.text)} : QuestionContinue(result)
          ELSE IF x.n = 0 THEN QuestionContinue(<<>>)
          ELSE /\ x' = [x EXCEPT !.at = "page", !.page = 1, !.acc = <<>>,
                                 !.prompt = "page_prompt"]
               /\ UNCHANGED <<pc, workflow_state, attempt, task, objs, results,
                              history, attempts, response>>
    /\ UNCHANGED <<selected_model, q_doc, a_doc, files, fn, service>>

\* The answer of the backend to the call for one page of the page-by-page fallback.
QuestionPageRespond ==
    /\ pc = "extract_q"
    /\ x.at = "page"
    /\ \E o \in PageOutcomes :
          LET acc == PageCollect(x.acc, x.page, o)
          IN IF x.page < x.n
             THEN /\ x' = [x EXCEPT !.page = @ + 1, !.acc = acc]
                  /\ UNCHANGED <<pc, workflow_state, attempt, task, objs, results,
                                 history, attempts, response>>
             ELSE \E text \in {JoinNL(acc)} : QuestionContinue(text)
    /\ UNCHANGED <<selected_model, q_doc, a_doc, files, fn, service>>

\* Variant of FallbackValidation: the structured fallback is reported invalid.
FallbackValidationInvalid ==
    [is_valid |-> FALSE, confidence |-> 60000, issues |-> <<"Used structured fallback">>]

\* Variant of FallbackValidation: confidence 0.5.
FallbackValidationHalf ==
    [is_valid |-> TRUE, confidence |-> 50000, issues |-> <<"Used structured fallback">>]

\* The validation dict AnswerProcessorAgent.execute puts in place of a failed one.
FallbackValidation ==
    [is_valid |-> TRUE, confidence |-> 60000, issues |-> <<"Used structured fallback">>]

\* Variant of SimplifiedModel: the second call goes to the other backend.
SimplifiedModelOther(model) == FallbackModel(model)

\* The model argument of the second call of AnswerProcessorAgent.execute, the one
\* with the simplified prompt.
SimplifiedModel(model) == model

\* AnswerProcessorAgent.execute from the point where _process_answers_debug returned.
AnswerContinue(latex_output) ==
    \E v \in {ValidateLatex(latex_output)} :
    LET question_text == results.question.data.question_text
        Done(text, val) ==
            ExecuteAgentStep(
                ExtractorResult(
                    [kind |-> "answers", latex_output |-> text, model_used |-> x.model,
                     validation |-> val], val),
                FALSE)
    IN IF v.is_valid THEN Done(latex_output, v)
       ELSE IF x.phase = "primary"
       THEN /\ LET c == Call("simplified", SimplifiedModel(x.model), "simplified_prompt")
               IN x' = [x EXCEPT !.phase = "simplified", !.prompt = c.prompt,
                                 !.backend = c.backend,
                                 !.chain = Append(@, c),
                                 !.verdicts = Append(@, Verdict(v))]
            /\ UNCHANGED <<pc, workflow_state, attempt, task, objs, results, history,
                           attempts, response>>
       ELSE Done(StructuredFallback(latex_output, question_text), FallbackValidation)

\* The answer of the backend to a call of _process_answers_debug.
AnswerRespond ==
    /\ pc = "extract_a"
    /\ x.at = "batch"
    /\ \E o \in AnswerOutcomes :
          \E latex_output \in
                {ProcessAnswers(x.backend, o, results.question.data.question_text)} :
             AnswerContinue(latex_output)
    /\ UNCHANGED <<selected_model, q_doc, a_doc, files, fn, service>>

\* LatexCompilerAgent.execute: its source is not part of src/.
CompilerExecute(outcome) ==
    IF outcome = "ok"
    THEN AgentResult(TRUE, [kind |-> "compiled", filename |-> "student_answers.pdf",
                            pdf_path |-> "output/student_answers.pdf"], "none", 100000)
    ELSE AgentResult(FALSE, NoData, "compilation failed", 100000)

CompilerFiles(outcome) ==
    IF outcome = "ok"
    THEN {<<OutputBase, e>> : e \in {".pdf", ".tex", ".aux"}}
    ELSE {}

\* One attempt of the compile stage.
CompilerAttempt ==
    /\ pc = "compile"
    /\ \E outcome \in {"ok", "fail", "raise"} :
          /\ ExecuteAgentStep(CompilerExecute(outcome), outcome = "raise")
          /\ files' = files \cup CompilerFiles(outcome)
    /\ UNCHANGED <<selected_model, q_doc, a_doc, fn, service>>

\* Variant of CleanupCandidates: every file with one of the extensions, whatever its name.
CleanupCandidatesAnyName(fs) == {f \in fs : f[2] \in cleanup_extensions}

\* The files _cleanup_temp_files tries to remove.
CleanupCandidates(fs) == {f \in fs : f[1] = OutputBase /\ f[2] \in cleanup_extensions}

\* _cleanup_temp_files and the success response.  stuck: the files os.remove fails on
\* (none, or the .tex file).
Cleanup ==
    /\ pc = "cleanup"
    /\ \E stuck \in {{}, {f \in CleanupCandidates(files) : f[2] = ".tex"}} :
          files' = files \ (CleanupCandidates(files) \ stuck)
    /\ response' = SuccessResponse(results.compile, workflow_state)
    /\ pc' = "returned"
    /\ UNCHANGED <<selected_model, q_doc, a_doc, workflow_state, attempt, task, objs,
                   results, history, x, attempts, fn, service>>

Next ==
    \/ Entry
    \/ AnalyzerAttempt
    \/ ExtractorStart
    \/ QuestionBatchRespond
    \/ QuestionPageRespond
    \/ AnswerRespond
    \/ CompilerAttempt
    \/ Cleanup

Spec == Init /\ [][Next]_vars

------------------------------------------------------------------------------
(* Properties of the workflow, over the trace of attempts. *)

Position(stage) ==
    CASE stage = "analyze_q" -> 1
      [] stage = "analyze_a" -> 2
      [] stage = "extract_q" -> 3
      [] stage = "extract_a" -> 4
      [] stage = "compile"   -> 5

FailureOf(stage) ==
    CASE stage = "analyze_q" -> "Question document analysis failed"
      [] stage = "analyze_a" -> "Answer document analysis failed"
      [] stage = "extract_q" -> "Question extraction failed"
      [] stage = "extract_a" -> "Answer processing failed"
      [] stage = "compile"   -> "LaTeX compilation failed"

AttemptsOf(stage) == {i \in 1..Len(attempts) : attempts[i].stage = stage}

Failed(i) == attempts[i].outcome # "success"

ExtractorStages == {"extract_q", "extract_a"}

\* C1: the stages are attempted in the order question analysis, answer analysis,
\* question extraction, answer extraction, compile; a stage is attempted only after
\* the stage before it succeeded; when the last attempt of a stage ends without
\* success the run has returned a failure response whose error names that stage,
\* and that attempt is the last attempt of the run.
C1_StagesInOrder ==
    /\ \A i, j \in 1..Len(attempts) :
          i < j => Position(attempts[i].stage) <= Position(attempts[j].stage)
    /\ \A j \in 1..Len(attempts) :
          Position(attempts[j].stage) > 1 =>
             \E i \in 1..(j - 1) :
                /\ Position(attempts[i].stage) = Position(attempts[j].stage) - 1
                /\ attempts[i].outcome = "success"
    /\ \A i \in 1..Len(attempts) :
          (Failed(i) /\ attempts[i].attempt = 3) =>
             /\ i = Len(attempts)
             /\ pc = "returned"
             /\ response.success = FALSE
             /\ response.error = FailureOf(attempts[i].stage)
    /\ (pc = "returned" /\ ~response.success) =>
          /\ attempts # <<>>
          /\ Failed(Len(attempts))
          /\ response.error = FailureOf(attempts[Len(attempts)].stage)

\* A run that failed in the fourth stage after the first three succeeded.
C1_Witness ==
    /\ pc = "returned"
    /\ ~response.success
    /\ response.error = "Answer processing failed"
    /\ Len(attempts) = 6
    /\ attempts[3].stage = "extract_q"

\* C2: no stage is attempted more than 3 times; no stage is attempted again after
\* an attempt of it succeeded; a stage the run failed in was attempted exactly 3
\* times; a run in which every attempt of the question analysis failed returns
\* success = false, names the question analysis, and holds exactly 3 steps.
C2_AtMostThreeAttempts ==
    /\ \A i \in 1..Len(attempts) : Cardinality(AttemptsOf(attempts[i].stage)) <= 3
    /\ \A i, j \in 1..Len(attempts) :
          (i < j /\ attempts[i].stage = attempts[j].stage) => Failed(i)
    /\ (pc = "returned" /\ ~response.success) =>
          Cardinality(AttemptsOf(attempts[Len(attempts)].stage)) = 3
    /\ (/\ pc = "returned"
        /\ attempts # <<>>
        /\ \A i \in 1..Len(attempts) : attempts[i].stage = "analyze_q" /\ Failed(i)) =>
          /\ response.success = FALSE
          /\ response.error = "Question document analysis failed"
          /\ Len(response.workflow_state.steps) = 3

\* A run whose three attempts of the question analysis all failed.
C2_Witness ==
    /\ pc = "returned"
    /\ Len(attempts) = 3
    /\ \A i \in 1..3 : attempts[i].stage = "analyze_q" /\ attempts[i].outcome = "failure"

\* C3: every attempt executed, whatever its outcome, has appended one entry to the
\* steps of the workflow state: the steps are as many as the attempts, entry by
\* entry the agent and attempt number of the attempt.
C3_EveryAttemptLogged ==
    /\ Len(workflow_state.steps) = Len(attempts)
    /\ \A i \in 1..Len(attempts) :
          i <= Len(workflow_state.steps) =>
             /\ workflow_state.steps[i].agent = attempts[i].task.agent
             /\ workflow_state.steps[i].attempt = attempts[i].attempt

\* C4: a run returns one response and nothing before it: until the return there is
\* no response; the response returned is either the success response with the PDF
\* name and path or the failure response with error and details, and it carries
\* the workflow state as it stands at the return.
C4_OneStructuredResponse ==
    /\ pc # "returned" => response = [pending |-> TRUE]
    /\ pc = "returned" =>
          /\ response.workflow_state = workflow_state
          /\ IF response.success
             THEN /\ DOMAIN response = {"success", "pdf_filename", "pdf_path",
                                        "workflow_state", "model_used"}
                  /\ attempts[Len(attempts)].stage = "compile"
                  /\ attempts[Len(attempts)].outcome = "success"
             ELSE /\ DOMAIN response = {"success", "error", "details", "workflow_state"}
                  /\ Failed(Len(attempts))

\* A failure response that carries logged steps.
C4_Witness ==
    /\ pc = "returned"
    /\ ~response.success
    /\ Len(response.workflow_state.steps) = 5
    /\ response.error = "Question extraction failed"

ThroughFallback(i) ==
    /\ attempts[i].stage = "extract_a"
    /\ attempts[i].outcome # "raised"
    /\ attempts[i].result.kind = "answers"
    /\ attempts[i].result.fallback

\* C10: an attempt of the answer extraction that ends through the structured
\* fallback returns a validation with is_valid true and confidence 0.6, is a
\* success of confidence 0.6, and is logged as such.
C10_FallbackIsSuccess ==
    \A i \in 1..Len(attempts) :
       ThroughFallback(i) =>
          /\ attempts[i].result.is_valid
          /\ attempts[i].result.validation_confidence = 60000
          /\ attempts[i].result.success
          /\ attempts[i].result.confidence = 60000
          /\ attempts[i].outcome = "success"
          /\ \E k \in 1..Len(workflow_state.steps) :
                /\ workflow_state.steps[k].agent = "answer_processor"
                /\ workflow_state.steps[k].attempt = attempts[i].attempt
                /\ workflow_state.steps[k].success
                /\ workflow_state.steps[k].confidence = 60000

\* The answer extraction ended through the structured fallback and the run went on.
C10_Witness ==
    /\ pc = "compile"
    /\ \E i \in 1..Len(attempts) : ThroughFallback(i)

\* C11: an attempt of the answer extraction that reached its validation is a
\* success with a valid result, whatever the backend answered; an attempt of the
\* question extraction never ends through a fallback, and it is a success exactly
\* when the validation of its last output is valid, so it fails when every
\* internal attempt failed validation.
C11_OnlyAnswersFallBack ==
    \A i \in 1..Len(attempts) :
       /\ attempts[i].result.kind = "answers" =>
             /\ attempts[i].result.success
             /\ attempts[i].result.is_valid
             /\ attempts[i].outcome = "success"
       /\ attempts[i].result.kind = "questions" =>
             /\ ~attempts[i].result.fallback
             /\ attempts[i].result.success = attempts[i].result.is_valid
             /\ attempts[i].outcome = (IF attempts[i].result.is_valid THEN "success"
                                       ELSE "failure")

\* A question extraction whose three internal attempts failed validation, retried
\* with success, followed by an answer extraction that ended through the fallback.
C11_Witness ==
    \E i, j \in 1..Len(attempts) :
       /\ attempts[i].stage = "extract_q"
       /\ attempts[i].result.kind = "questions"
       /\ ~attempts[i].result.is_valid
       /\ attempts[i].outcome = "failure"
       /\ attempts[j].stage = "extract_a"
       /\ attempts[j].result.fallback
       /\ attempts[j].outcome = "success"

\* C12: the error of a backend call that raised is never accepted as the text or
\* the document an extractor stage succeeds with.
C12_BackendErrorsFail ==
    /\ results.question.success => ~Has(results.question.data.question_text, "ERQ")
    /\ results.answer.success =>
          /\ ~Has(results.answer.data.latex_output, "ERR")
          /\ ~Has(results.answer.data.latex_output, "ERA")

\* C21: a document that gives no page images is fatal for the stage that owns it
\* and is not retried: a stage working on the question paper when it has no pages is
\* attempted once, fails, and the run has returned with the error of that stage.
C21_NoPagesFatal ==
    \A i \in 1..Len(attempts) :
       (q_doc.pages = <<>> /\ attempts[i].stage \in {"analyze_q", "extract_q"}) =>
          /\ attempts[i].attempt = 1
          /\ Failed(i)
          /\ i = Len(attempts)
          /\ pc = "returned"
          /\ ~response.success
          /\ response.error = FailureOf(attempts[i].stage)

\* C22: the compile stage is attempted at most once in a run, and a failed attempt
\* of it ends the run with the error of the compile stage.
C22_CompileOnce ==
    /\ Cardinality(AttemptsOf("compile")) <= 1
    /\ \A i \in AttemptsOf("compile") :
          Failed(i) =>
             /\ pc = "returned"
             /\ ~response.success
             /\ response.error = "LaTeX compilation failed"

\* C23: a step removes files of the output folder only when all five stages have
\* succeeded; the files it removes are named by the output base name followed by
\* one of the transient extensions; and the step that cleans up returns the success
\* response, whether or not a removal failed.
C23_CleanupOnlyAfterSuccess ==
    [][/\ ~(files \subseteq files') =>
             /\ \A r \in {results.q_analysis, results.a_analysis, results.question,
                          results.answer, results.compile} : r.success
             /\ \A f \in files \ files' :
                   /\ f[1] = "student_answers"
                   /\ f[2] \in cleanup_extensions
       /\ pc = "cleanup" =>
             /\ pc' = "returned"
             /\ response'.success]_vars

\* A run that returned success after a cleanup that removed the .out and the .aux
\* file, failed to remove the .tex file, and left the file of another name alone.
C23_Witness ==
    /\ pc = "returned"
    /\ response.success
    /\ <<"student_answers", ".tex">> \in files
    /\ <<"student_answers", ".out">> \notin files
    /\ <<"student_answers", ".aux">> \notin files
    /\ <<"student_answers", ".pdf">> \in files
    /\ <<"other", ".tex">> \in files

\* C24: every strategy names one of the two backends: the strategy of each analysis
\* result, and the strategy of the task of every attempt of an extractor stage,
\* first attempt and retries, whatever selected_model was passed.
C24_StrategyNamesBackend ==
    /\ \A r \in {results.q_analysis, results.a_analysis} :
          r.success => r.data.strategy.recommended_model \in {"gemini", "openai"}
    /\ \A i \in 1..Len(attempts) :
          attempts[i].stage \in ExtractorStages =>
             attempts[i].hint \in {"gemini", "openai"}

\* C25: in the question extractor a second call is made only after a validation
\* that was invalid and retryable, and it goes to the other backend than the first
\* call, with the prompt of the first call.
C25_SecondaryOtherBackend ==
    (pc = "extract_q" /\ Len(x.chain) >= 2) =>
       /\ ~x.verdicts[1].is_valid
       /\ x.verdicts[1].should_retry
       /\ x.chain[2].backend # x.chain[1].backend
       /\ x.chain[2].prompt = x.chain[1].prompt

\* C26: in the question extractor the third call, made after a second invalid
\* validation, carries the enhanced prompt, goes to the backend of the second call,
\* and no call follows it.
C26_EnhancedOnSecondaryBackend ==
    /\ pc = "extract_q" => Len(x.chain) <= 3
    /\ (pc = "extract_q" /\ Len(x.chain) = 3) =>
          /\ ~x.verdicts[2].is_valid
          /\ x.chain[3].prompt = "enhanced_prompt"
          /\ x.chain[3].backend = x.chain[2].backend

\* The attempt whose result the step appends to the trace ended through the
\* structured fallback.
EndsThroughFallback ==
    /\ Len(attempts') = Len(attempts) + 1
    /\ attempts'[Len(attempts')].result.fallback

JustReturned(stage, next) ==
    /\ pc = next
    /\ attempts # <<>>
    /\ attempts[Len(attempts)].stage = stage

\* C28: an attempt of an extractor that returned a result has the success of its
\* validation's is_valid and the confidence of its validation; the text of the
\* question result is the text its validation judged, and the document of the
\* answer result is the document its validation judged or the structured fallback.
C28_OutcomeIsLastValidation ==
    /\ \A i \in 1..Len(attempts) :
          attempts[i].result.kind \in {"questions", "answers"} =>
             /\ attempts[i].result.success = attempts[i].result.is_valid
             /\ attempts[i].result.confidence = attempts[i].result.validation_confidence
    /\ JustReturned("extract_q", "extract_a") =>
          /\ results.question.success = results.question.data.validation.is_valid
          /\ results.question.confidence = results.question.data.validation.confidence
          /\ results.question.data.validation =
                ValidateQuestions(results.question.data.question_text,
                                  results.question.data.pages_processed)
    /\ JustReturned("extract_a", "compile") =>
          /\ results.answer.success = results.answer.data.validation.is_valid
          /\ results.answer.confidence = results.answer.data.validation.confidence
          /\ \/ results.answer.data.validation =
                   ValidateLatex(results.answer.data.latex_output)
             \/ /\ results.answer.data.validation = FallbackValidation
                /\ Len(results.answer.data.latex_output) > 10
                /\ SubSeq(results.answer.data.latex_output, 1, 10) =
                      <<"DC", "F100", "NL", "BD", "NL", "TT", "F60", "MT", "NL", "F200">>

\* A question extraction that succeeded with a confidence below 0.9 and an answer
\* extraction that succeeded through the fallback with 0.6.
C28_Witness ==
    /\ results.question.success
    /\ results.question.confidence < 90000
    /\ results.answer.success
    /\ results.answer.confidence = 60000
    /\ results.answer.data.validation = FallbackValidation

------------------------------------------------------------------------------
(* The analyzer as a function: DocumentAnalyzerAgent.execute applied to a      *)
(* document, and the strategy rules applied to a profile.                      *)

\* Largest page count of a document or profile given to the analyzer.
MaxStrategyPages == 17

FnPageKinds == {"small", "a4", "large"}

\* Documents of n pages: the three sampled pages are of any kind, the others like
\* the third.
FnDocs ==
    {[pages |-> [i \in 1..n |-> IF i = 1 THEN k1 ELSE IF i = 2 THEN k2 ELSE k3],
      size_mb |-> sz] :
        n \in 0..MaxStrategyPages, k1 \in FnPageKinds, k2 \in FnPageKinds,
        k3 \in FnPageKinds, sz \in {5, 21, 51}}

Tiers == {"low", "medium", "high"}

\* Profiles as the analysis dict holds them.
FnProfiles ==
    {[total_pages |-> n, pages_analyzed |-> Min(3, n), file_size_mb |-> sz,
      has_size |-> TRUE, image_quality |-> q, complexity |-> c, text_density |-> d,
      confidence |-> 85000, error |-> FALSE] :
        n \in 1..MaxStrategyPages, sz \in {0, 5, 21, 51}, q \in Tiers, c \in Tiers,
        d \in Tiers}

FileTypes == {"question_paper", "answer_sheet", "unknown"}

InitAnalyzer ==
    /\ service = NoService
    /\ pc = "fn"
    /\ selected_model = "gemini"
    /\ q_doc = [pages |-> <<>>, size_mb |-> 0]
    /\ a_doc = [pages |-> <<>>, size_mb |-> 0]
    /\ workflow_state = [steps |-> <<>>, errors |-> <<>>, retry_count |-> 0]
    /\ attempt = 0
    /\ task = NoTask
    /\ objs = [q |-> NoStrategy, a |-> NoStrategy]
    /\ results = [q_analysis |-> NoResult, a_analysis |-> NoResult, question |-> NoResult,
                  answer |-> NoResult, compile |-> NoResult]
    /\ history = [a \in Agents |-> <<>>]
    /\ x = IdleFrame
    /\ attempts = <<>>
    /\ files = {}
    /\ response = [pending |-> TRUE]
    /\ \/ \E d \in FnDocs, ft \in FileTypes, count_ok \in BOOLEAN, convert_ok \in BOOLEAN,
             raised \in BOOLEAN :
             fn = [op |-> "analyze", doc |-> d, file_type |-> ft, count_ok |-> count_ok,
                   convert_ok |-> convert_ok, raised |-> raised, out |-> NoResult]
       \/ \E a \in FnProfiles, ft \in FileTypes :
             fn = [op |-> "strategy", analysis |-> a, file_type |-> ft, out |-> Strategy0]

\* DocumentAnalyzerAgent.execute on the document.
ApplyAnalyzer ==
    /\ fn.op = "analyze"
    /\ UNCHANGED service
    /\ fn' = [fn EXCEPT !.op = "analyzed",
                        !.out = AnalyzerExecute(fn.doc, fn.file_type, fn.count_ok,
                                                fn.convert_ok, fn.raised)]
    /\ UNCHANGED <<pc, selected_model, q_doc, a_doc, workflow_state, attempt, task, objs,
                   results, history, x, attempts, files, response>>

\* _determine_processing_strategy_research_based on the profile.
ApplyStrategy ==
    /\ fn.op = "strategy"
    /\ UNCHANGED service
    /\ fn' = [fn EXCEPT !.op = "decided",
                        !.out = DetermineStrategy(fn.analysis, fn.file_type)]
    /\ UNCHANGED <<pc, selected_model, q_doc, a_doc, workflow_state, attempt, task, objs,
                   results, history, x, attempts, files, response>>

NextAnalyzer == ApplyAnalyzer \/ ApplyStrategy

SpecAnalyzer == InitAnalyzer /\ [][NextAnalyzer]_vars

\* The parts of the page-by-page result are pairs of a page marker and a page
\* text: every text is longer than 50 characters, the markers are those of pages
\* before page upto, in increasing order.
MarkedInOrder(acc, upto) ==
    /\ Len(acc) % 2 = 0
    /\ \E pages \in [1..(Len(acc) \div 2) -> 1..(upto - 1)] :
          /\ \A j \in DOMAIN pages :
                /\ acc[2 * j - 1] = <<"NL", PageMarker(pages[j])>>
                /\ TextLen(acc[2 * j]) > 50
          /\ \A j, k \in DOMAIN pages : j < k => pages[j] < pages[k]

\* The parts after the answer o of the backend for page i was looked at.
AfterPage(acc, i, o) ==
    IF o.kind = "text" /\ TextLen(Strip(o.text)) > 50
    THEN acc \o << <<"NL", PageMarker(i)>>, Strip(o.text) >>
    ELSE acc

\* C34: in the page-by-page pass of the question extraction every step is the one
\* call for the current page, the pages being taken in order from 1 to n; the answer
\* of the page is appended under its page marker when it is longer than 50
\* characters and left out otherwise (also when the call raises), and the page is
\* not called again; after page n the pass is over and the text handed to the
\* validation, the one a successful result returns, is the parts joined in order.
C34_OneCallPerPageInOrder ==
    [][(pc = "extract_q" /\ x.at = "page") =>
          /\ x.page \in 1..x.n
          /\ MarkedInOrder(x.acc, x.page)
          /\ \E o \in PageOutcomes :
                LET acc == AfterPage(x.acc, x.page, o)
                IN IF x.page < x.n
                   THEN /\ x'.at = "page" /\ x'.page = x.page + 1 /\ x'.acc = acc
                        /\ x'.chain = x.chain /\ attempts' = attempts
                   ELSE /\ x'.at # "page"
                        /\ MarkedInOrder(acc, x.n + 1)
                        /\ (results'.question # results.question
                              /\ results'.question.success) =>
                              results'.question.data.question_text = JoinNL(acc)]_vars

\* The question extraction returned the text of a page-by-page pass over two pages,
\* both accepted.
C34_Witness ==
    /\ results.question.success
    /\ results.question.data.question_text =
          JoinNL(<< <<"NL", "PG1">>, PGood, <<"NL", "PG2">>, PGood >>)

\* The question extraction returned the text of a page-by-page pass over two pages
\* of which the first was left out.
C34_WitnessOmitted ==
    /\ results.question.success
    /\ results.question.data.question_text = JoinNL(<< <<"NL", "PG2">>, PGood >>)

\* C35: the request of every attempt made so far, the task kept with the attempt and
\* logged in the execution history of the agent and the strategy it refers to,
\* still names the model that attempt was made with.
C35_EarlierRequestsUntouched ==
    /\ \A i \in 1..Len(attempts) :
          attempts[i].task.strategy # "none" =>
             HintOf(attempts[i].task, objs) = attempts[i].hint
    /\ \A agent \in {"question_extractor", "answer_processor"} :
          \A j \in 1..Len(history[agent]) :
             \E i \in 1..Len(attempts) :
                /\ attempts[i].task = history[agent][j].task
                /\ HintOf(history[agent][j].task, objs) = attempts[i].hint

\* C36: when an extractor returns its text, the model_used of its result names the
\* backend of the call whose answer the text is, the last call of the attempt; and
\* the model_used of the success response names the backend the successful attempt
\* of the answer extraction, whose document was compiled, made its calls to.
C36_ModelUsedIsBackendOfText ==
    [][/\ (pc = "extract_q" /\ pc' = "extract_a") =>
             BackendOf(results'.question.data.model_used) = x.backend
       /\ (pc = "extract_a" /\ pc' = "compile") =>
             BackendOf(results'.answer.data.model_used) = x.backend
       /\ (pc = "cleanup" /\ pc' = "returned") =>
             \A i \in AttemptsOf("extract_a") :
                attempts[i].outcome = "success" =>
                   BackendOf(response'.model_used) = BackendOf(attempts[i].hint)]_vars

\* The strategy the analyzer decided for the document of the current extraction.
AnalyzerDecision ==
    IF pc = "extract_q" THEN results.q_analysis.data.strategy
    ELSE results.a_analysis.data.strategy

\* C37: the extraction follows the decision of the analyzer: the first attempt of
\* an extractor rasterizes at the dpi_setting of the decision and makes its first
\* call to the backend the decision recommends, and a page-by-page pass is made
\* only under a decision whose multi_page_strategy provides for one.
C37_DecisionGovernsExtraction ==
    [][(pc \in ExtractorStages) =>
          /\ (x.phase = "idle" /\ x'.phase = "primary" /\ attempt = 0) =>
                /\ pdf_to_images_dpi = AnalyzerDecision.dpi_setting
                /\ x'.backend = BackendOf(AnalyzerDecision.recommended_model)
          /\ (x.at = "batch" /\ x'.at = "page") =>
                AnalyzerDecision.multi_page_strategy
                   \in {"page_by_page_fallback", "batch_with_page_fallback"}]_vars

\* C37, the backend alone: the first call of the first attempt of an extractor goes
\* to the backend the decision of the analyzer recommends.
C37_FirstBackendIsRecommended ==
    [][(pc \in ExtractorStages /\ x.phase = "idle" /\ x'.phase = "primary" /\ attempt = 0)
          => x'.backend = BackendOf(AnalyzerDecision.recommended_model)]_vars

\* The place of an agent in the order of the stages (the analyzer has two stages).
AgentPosition(agent) ==
    CASE agent = "analyzer" -> 1
      [] agent = "question_extractor" -> 2
      [] agent = "answer_processor" -> 3
      [] agent = "latex_compiler" -> 4

\* C38: the steps of the workflow state are at most 15, five stages of three
\* attempts; the first step is attempt 1; every later step either continues the
\* group of its stage, after a step of the same agent without success and with the
\* next attempt number, or opens the group of the next stage with attempt 1 after
\* a step with success; the analyzer has the two first groups.
C38_StepsGroupedByStage ==
    LET steps == workflow_state.steps
    IN /\ Len(steps) <= 15
       /\ steps # <<>> => steps[1].attempt = 1 /\ steps[1].agent = "analyzer"
       /\ \A i \in 2..Len(steps) :
             \/ /\ steps[i].agent = steps[i - 1].agent
                /\ ~steps[i - 1].success
                /\ steps[i].attempt = steps[i - 1].attempt + 1
             \/ /\ steps[i - 1].success
                /\ steps[i].attempt = 1
                /\ \/ AgentPosition(steps[i].agent) = AgentPosition(steps[i - 1].agent) + 1
                   \/ steps[i].agent = "analyzer"
       /\ Cardinality({i \in 1..Len(steps) :
                          steps[i].agent = "analyzer" /\ steps[i].attempt = 1}) <= 2
       /\ (\E i \in 1..Len(steps) : steps[i].agent = "question_extractor") =>
             Cardinality({i \in 1..Len(steps) :
                             steps[i].agent = "analyzer" /\ steps[i].success}) = 2

\* C40: when the run has returned, retry_count of the workflow state is the number
\* of attempts beyond the first of their stage, and errors of the workflow state
\* holds the error of every attempt that returned without success.
C40_RetriesAndErrorsCounted ==
    pc = "returned" =>
       /\ workflow_state.retry_count =
             Cardinality({i \in 1..Len(attempts) : attempts[i].attempt > 1})
       /\ \A i \in 1..Len(attempts) :
             attempts[i].outcome = "failure" =>
                \E k \in 1..Len(workflow_state.errors) :
                   workflow_state.errors[k] = attempts[i].result.error

\* The run is over: process_digital_evaluation returned a response or raised.
Returned == pc \in {"returned", "entry_raised"}

\* The workflow when every call made eventually returns or raises: the one thread
\* of the run takes its next step as long as it has one.  The run is that of the
\* longest question paper, with gemini selected.
InitTermination ==
    /\ Init
    /\ selected_model = "gemini"
    /\ Len(q_doc.pages) = MaxPages

SpecTermination == InitTermination /\ [][Next]_vars /\ WF_vars(Next)

\* The calls of the attempt under way are within the bounds of the chain: at most
\* three calls over all pages, and under the current one at most one pass over
\* the pages, which is at a page of the document.
CallsBounded ==
    /\ attempt <= 2
    /\ Len(x.chain) <= 3
    /\ x.at = "page" => x.page \in 1..x.n
    /\ \A s \in {"analyze_q", "analyze_a", "extract_q", "extract_a", "compile"} :
          Cardinality(AttemptsOf(s)) <= 3

\* C39: every run returns: a stage makes at most three attempts, an attempt at most
\* three calls over all pages, each with at most one pass page by page, and the
\* run reaches its return.
C39_EveryRunReturns == []CallsBounded /\ <>Returned

\* A run of the longest question paper that returned after the question
\* extraction was retried and after a stage failed at its third attempt.
C39_Witness ==
    /\ pc = "returned"
    /\ Len(q_doc.pages) = MaxPages
    /\ \E i \in AttemptsOf("extract_q") : attempts[i].attempt > 1
    /\ \E i \in 1..Len(attempts) : attempts[i].attempt = 3 /\ Failed(i)

------------------------------------------------------------------------------
(* Properties of the analyzer. *)

\* C7: every profile of more than 15 pages, whatever the document type, quality,
\* complexity, density and file size, gets the strategy with recommended_model
\* gemini, whether the profile is given to the rules or comes out of the analysis
\* of a document.
C7_ManyPagesUseGemini ==
    /\ (fn.op = "decided" /\ fn.analysis.total_pages > 15) =>
          fn.out.recommended_model = "gemini"
    /\ (fn.op = "analyzed" /\ fn.out.success /\ fn.out.data.analysis.total_pages > 15) =>
          fn.out.data.strategy.recommended_model = "gemini"

\* A short-sized, high-quality question paper of 16 pages decided as gemini.
C7_Witness ==
    /\ fn.op = "decided"
    /\ fn.analysis.total_pages = 16
    /\ fn.analysis.file_size_mb = 0
    /\ fn.analysis.image_quality = "high"
    /\ fn.file_type = "question_paper"
    /\ fn.out.recommended_model = "gemini"

\* C8: a profile of 12 pages, 5 MB and medium quality, of any document type,
\* complexity and density, gets recommended_model gemini and multi_page_strategy
\* page_by_page_fallback.
C8_TwelvePagesPageByPage ==
    (/\ fn.op = "decided"
     /\ fn.analysis.total_pages = 12
     /\ fn.analysis.file_size_mb = 5
     /\ fn.analysis.image_quality = "medium") =>
        /\ fn.out.recommended_model = "gemini"
        /\ fn.out.multi_page_strategy = "page_by_page_fallback"

\* C9: execute of the analyzer returns success = false exactly when the conversion
\* of the sampled pages gives no image; its confidence is 0.85 when it succeeds and
\* 0.0 when it fails.
C9_FailsExactlyOnNoImages ==
    fn.op = "analyzed" =>
       LET no_images == ~fn.convert_ok \/ fn.doc.pages = <<>>
       IN /\ (fn.out.success = FALSE) <=> no_images
          /\ fn.out.success => fn.out.confidence = 85000
          /\ ~fn.out.success => fn.out.confidence = 0

\* The profile and the document role a strategy was decided for, and the strategy.
Decided ==
    IF fn.op = "decided"
    THEN [analysis |-> fn.analysis, file_type |-> fn.file_type, strategy |-> fn.out]
    ELSE [analysis |-> fn.out.data.analysis, file_type |-> fn.out.data.file_type,
          strategy |-> fn.out.data.strategy]

HasDecision == fn.op = "decided" \/ (fn.op = "analyzed" /\ fn.out.success)

\* The backend each of the rules 1 to 5 chooses when applied alone to the profile,
\* "unset" when it chooses none.
ChoiceOfRule(a, file_type) ==
    LET unset == [Strategy0 EXCEPT !.recommended_model = "unset"]
    IN << Rule1PageCount(unset, a, file_type).recommended_model,
          Rule2DocumentType(unset, a, file_type).recommended_model,
          Rule3ImageQuality(unset, a).recommended_model,
          Rule4ComplexityDensity(unset, a).recommended_model,
          Rule5FileSize(unset, a).recommended_model >>

\* The rule a reasoning string comes from.
RuleOfReason(why) ==
    CASE why \in {"Large document", "Multi-page questions", "Multi-page answers"} -> 1
      [] why \in {"Short question paper", "Long question paper", "Complex handwriting",
                  "Answer sheets"} -> 2
      [] why \in {"Poor image quality", "High quality images"} -> 3
      [] why \in {"High complexity + density", "High complexity + many pages"} -> 4
      [] why = "Large file size" -> 5
      [] why = "Cost optimization" -> 6
      [] why \in {"OpenAI with page-by-page fallback", "Gemini batch processing"} -> 7
      [] OTHER -> 0

\* C31: the backend of the decision is gemini when the profile has more than 15
\* pages, or more than 8 pages and more than 20 MB; otherwise it is the backend
\* chosen by the last of the rules 1 to 5 that chooses one, and openai when none
\* does; the reasoning strings stand in the order of their rules, and the string
\* of the cost rule is among them when the rule is triggered.
C31_LastRuleWins ==
    HasDecision =>
       LET a == Decided.analysis
           c == ChoiceOfRule(a, Decided.file_type)
           chosen == {k \in 1..5 : c[k] # "unset"}
           last == CHOOSE k \in chosen : \A j \in chosen : j <= k
           cost == a.total_pages > 15 \/ (a.total_pages > 8 /\ FileSize(a) > 20)
           why == Decided.strategy.reasoning
       IN /\ Decided.strategy.recommended_model =
                (IF cost THEN "gemini" ELSE IF chosen = {} THEN "openai" ELSE c[last])
          /\ \A i, j \in 1..Len(why) : i < j => RuleOfReason(why[i]) < RuleOfReason(why[j])
          /\ \A i \in 1..Len(why) : RuleOfReason(why[i]) # 0
          /\ cost <=> (\E i \in 1..Len(why) : why[i] = "Cost optimization")

\* An answer sheet of 4 pages with complex handwriting and poor image quality: the
\* second rule chooses openai, the third gemini, and gemini it is.
C31_Witness ==
    /\ fn.op = "decided"
    /\ fn.file_type = "answer_sheet"
    /\ fn.analysis.total_pages = 4
    /\ fn.analysis.complexity = "high"
    /\ fn.analysis.image_quality = "low"
    /\ fn.analysis.file_size_mb = 5
    /\ fn.out.recommended_model = "gemini"
    /\ fn.out.reasoning =
          <<"Complex handwriting", "Poor image quality", "Gemini batch processing">>

\* C32: in every decision, multi_page_strategy is batch_with_page_fallback when the
\* backend of the decision is openai and the profile has more than 8 pages, and
\* batch_process whenever the backend of the decision is gemini.
C32_ModeFollowsFinalBackend ==
    HasDecision =>
       LET d == Decided.strategy
       IN /\ (d.recommended_model = "openai" /\ Decided.analysis.total_pages > 8) =>
                d.multi_page_strategy = "batch_with_page_fallback"
          /\ d.recommended_model = "gemini" => d.multi_page_strategy = "batch_process"

\* A question paper of 9 pages and 5 MB stays with openai and gets the page
\* fallback mode.
C32_Witness ==
    /\ fn.op = "decided"
    /\ fn.file_type = "question_paper"
    /\ fn.analysis.total_pages = 9
    /\ fn.analysis.file_size_mb = 5
    /\ fn.out.recommended_model = "openai"
    /\ fn.out.multi_page_strategy = "batch_with_page_fallback"

\* A profile of 12 pages ends with gemini and batch_process, the mode of the first
\* rule being replaced by the last.
C32_WitnessGemini ==
    /\ fn.op = "decided"
    /\ fn.analysis.total_pages = 12
    /\ fn.out.recommended_model = "gemini"
    /\ fn.out.multi_page_strategy = "batch_process"
    /\ fn.out.reasoning[1] = "Large document"

\* The analysis of a document that gave a profile with tiers.
Profiled == fn.op = "analyzed" /\ fn.out.success /\ ~fn.out.data.analysis.error

\* The tier of a document whose sampled pages have these tiers.
TierOfSample(tiers) ==
    IF "high" \in tiers THEN "high" ELSE IF tiers \subseteq {"low"} THEN "low" ELSE "medium"

\* C33: the analysis samples the first pages of the document, three of them or
\* all when the document has fewer; its complexity and its text density are high
\* if a sampled page has the tier high, low if all sampled pages have the tier
\* low, and medium otherwise.
C33_TiersOfSampledPages ==
    Profiled =>
       LET a == fn.out.data.analysis
           k == a.pages_analyzed
           sample == 1..k
       IN /\ k <= 3 /\ k <= Len(fn.doc.pages) /\ k >= 1
          /\ fn.count_ok => k = (IF Len(fn.doc.pages) < 3 THEN Len(fn.doc.pages) ELSE 3)
          /\ a.complexity = TierOfSample({PageComplexity(fn.doc.pages[i]) : i \in sample})
          /\ a.text_density = TierOfSample({PageDensity(fn.doc.pages[i]) : i \in sample})

\* A document of five pages, the first small, the second A4, the third large: three
\* pages are sampled and the tiers are high, the tier of the third page.
C33_Witness ==
    /\ Profiled
    /\ fn.count_ok
    /\ Len(fn.doc.pages) = 5
    /\ fn.doc.pages[1] = "small" /\ fn.doc.pages[2] = "a4" /\ fn.doc.pages[3] = "large"
    /\ fn.out.data.analysis.pages_analyzed = 3
    /\ fn.out.data.analysis.complexity = "high"
    /\ fn.out.data.analysis.text_density = "high"

\* A document of two pages, small and A4: both are sampled and the tiers are medium.
C33_WitnessShort ==
    /\ Profiled
    /\ fn.count_ok
    /\ fn.doc.pages = <<"small", "a4">>
    /\ fn.out.data.analysis.pages_analyzed = 2
    /\ fn.out.data.analysis.complexity = "medium"
    /\ fn.out.data.analysis.text_density = "medium"

------------------------------------------------------------------------------
(* The two validators as functions of the text and the page count. *)

\* Largest number of "Question <n>" matches in a question text.
MaxMatches == 2

\* Largest number of 100-character blocks of other text in a question text.
MaxFillBlocks == 16

\* Largest page count handed to the question validator.
MaxValidatorPages == 3

\* Largest number of tokens of a text handed to the LaTeX validator.
MaxLatexTokens == 5

Rep(t, n) == [i \in 1..n |-> t]

\* What a question text holds: nq "Question <n>", kw keywords, a mark allocation,
\* op option markers, a page marker, the no-questions marker, fill blocks of other
\* text, and white space around it.
QShapes ==
    [nq : 0..MaxMatches, kw : 0..1, mk : BOOLEAN, op : {0, 3, 4}, pg : BOOLEAN,
     none : BOOLEAN, fill : 0..MaxFillBlocks, pad : BOOLEAN]

BuildQ(sh) ==
    (IF sh.pad THEN <<"NL">> ELSE <<>>)
        \o Rep("QN", sh.nq) \o Rep("KW", sh.kw)
        \o (IF sh.mk THEN <<"MK">> ELSE <<>>)
        \o Rep("OP", sh.op)
        \o (IF sh.pg THEN <<"PG1">> ELSE <<>>)
        \o (IF sh.none THEN <<"NQ">> ELSE <<>>)
        \o Rep("F100", sh.fill)
        \o (IF sh.pad THEN <<"NL">> ELSE <<>>)

LatexAlphabet == {"DC", "BD", "ED", "F10", "F100", "NL"}

LatexTexts == UNION {[1..n -> LatexAlphabet] : n \in 0..MaxLatexTokens}

Idle ==
    /\ pc = "fn"
    /\ selected_model = "gemini"
    /\ q_doc = [pages |-> <<>>, size_mb |-> 0]
    /\ a_doc = [pages |-> <<>>, size_mb |-> 0]
    /\ workflow_state = [steps |-> <<>>, errors |-> <<>>, retry_count |-> 0]
    /\ attempt = 0
    /\ task = NoTask
    /\ objs = [q |-> NoStrategy, a |-> NoStrategy]
    /\ results = [q_analysis |-> NoResult, a_analysis |-> NoResult, question |-> NoResult,
                  answer |-> NoResult, compile |-> NoResult]
    /\ history = [a \in Agents |-> <<>>]
    /\ x = IdleFrame
    /\ attempts = <<>>
    /\ files = {}
    /\ response = [pending |-> TRUE]

InitValidators ==
    /\ service = NoService
    /\ Idle
    /\ \/ \E sh \in QShapes, n \in 0..MaxValidatorPages :
             fn = [op |-> "validate_questions", shape |-> sh, text |-> BuildQ(sh),
                   num_pages |-> n, out |-> QuestionValidation0]
       \/ \E t \in LatexTexts :
             fn = [op |-> "validate_latex", text |-> t, out |-> LatexValidation0,
                   again |-> LatexValidation0]

\* _validate_multipage_extraction(question_text, num_pages)
ApplyValidateQuestions ==
    /\ fn.op = "validate_questions"
    /\ UNCHANGED service
    /\ fn' = [fn EXCEPT !.op = "validated_questions",
                        !.out = ValidateQuestions(fn.text, fn.num_pages)]
    /\ UNCHANGED <<pc, selected_model, q_doc, a_doc, workflow_state, attempt, task, objs,
                   results, history, x, attempts, files, response>>

\* _enhanced_validate_latex(latex_output), a first call.
ApplyValidateLatex ==
    /\ fn.op = "validate_latex"
    /\ UNCHANGED service
    /\ fn' = [fn EXCEPT !.op = "validated_latex",
                        !.out = ValidateLatexFrom(fn.text, NewValidation(LatexValidation0))]
    /\ UNCHANGED <<pc, selected_model, q_doc, a_doc, workflow_state, attempt, task, objs,
                   results, history, x, attempts, files, response>>

\* _enhanced_validate_latex(latex_output), a second call on the same text.
ApplyValidateLatexAgain ==
    /\ fn.op = "validated_latex"
    /\ UNCHANGED service
    /\ fn' = [fn EXCEPT !.op = "validated_latex_twice",
                        !.again = ValidateLatexFrom(fn.text, NewValidation(fn.out))]
    /\ UNCHANGED <<pc, selected_model, q_doc, a_doc, workflow_state, attempt, task, objs,
                   results, history, x, attempts, files, response>>

NextValidators == ApplyValidateQuestions \/ ApplyValidateLatex \/ ApplyValidateLatexAgain

SpecValidators == InitValidators /\ [][NextValidators]_vars

\* Every specification of the module at once.
InitAll == Init \/ InitAnalyzer \/ InitValidators

NextAll == Next \/ NextAnalyzer \/ NextValidators

SpecAll == InitAll /\ [][NextAll]_vars

------------------------------------------------------------------------------
(* Properties of the validators. *)

Validated == fn.op \in {"validated_questions", "validated_latex", "validated_latex_twice"}

TooShort(t) == t = <<>> \/ TextLen(Strip(t)) < 100

\* C13: both validators, for every page count, reject a text that is empty or
\* shorter than 100 characters after stripping: is_valid false, should_retry true,
\* confidence 0.1 and exactly one issue, the too-short one.
C13_ShortTextRejected ==
    /\ (fn.op = "validated_questions" /\ TooShort(fn.text)) =>
          fn.out = [is_valid |-> FALSE, should_retry |-> TRUE, confidence |-> 10000,
                    issues |-> <<"Extracted text too short">>]
    /\ (fn.op = "validated_latex" /\ TooShort(fn.text)) =>
          fn.out = [is_valid |-> FALSE, should_retry |-> TRUE, confidence |-> 10000,
                    issues |-> <<"Output too short">>]

\* The empty text, validated as the text of a two-page question paper.
C13_Witness ==
    /\ fn.op = "validated_questions"
    /\ fn.text = <<>>
    /\ fn.num_pages = 2
    /\ fn.out.confidence = 10000
    /\ Len(fn.out.issues) = 1

\* C14: every validation result with is_valid false, of either validator on any
\* text and page count, carries at least one issue.
C14_InvalidHasIssue ==
    Validated => (~fn.out.is_valid => Len(fn.out.issues) >= 1)

\* A document whose body is fine and that lacks only \documentclass: invalid.
C14_Witness ==
    /\ fn.op = "validated_latex"
    /\ ~Has(fn.text, "DC")
    /\ DocMatch(fn.text).found
    /\ TextLen(DocMatch(fn.text).content) >= 50
    /\ ~fn.out.is_valid

SameButLength(f) == BuildQ([fn.shape EXCEPT !.fill = f])

OnePageCase ==
    /\ fn.op = "validated_questions"
    /\ fn.num_pages = 1
    /\ ~TooShort(fn.text)
    /\ ~fn.shape.none

NoLengthPenalty == \A k \in 1..Len(fn.out.issues) : fn.out.issues[k] # "Content seems short"

\* C16: for a text of one page the soft length penalty is not applied, and every
\* text that differs from it only in its length (both of at least 100 characters)
\* gets the same confidence.
C16_OnePageLengthBlind ==
    OnePageCase =>
       /\ NoLengthPenalty
       /\ \A f \in 0..MaxFillBlocks :
             ~TooShort(SameButLength(f)) =>
                ValidateQuestions(SameButLength(f), 1).confidence = fn.out.confidence

\* C16, amended: for a text of one page the soft length penalty is not applied, and
\* every text that differs from it only in its length (both of at least 100
\* characters) and lies on the same side of 500 characters per page gets the same
\* confidence.
C16_OnePageNoPenalty ==
    OnePageCase =>
       /\ NoLengthPenalty
       /\ \A f \in 0..MaxFillBlocks :
             (/\ ~TooShort(SameButLength(f))
              /\ (TextLen(SameButLength(f)) > 500) = (TextLen(fn.text) > 500)) =>
                ValidateQuestions(SameButLength(f), 1).confidence = fn.out.confidence

\* A one-page text of 110 characters, under 200 characters per page.
C16_Witness ==
    /\ OnePageCase
    /\ TextLen(fn.text) = 110
    /\ fn.shape.nq = 1
    /\ fn.out.is_valid
    /\ fn.out.confidence = 72000

MissingMarker(t) == ~Has(t, "DC") \/ ~Has(t, "BD") \/ ~Has(t, "ED")

\* C17: the LaTeX validator finds a text of at least 100 characters that lacks any
\* of \documentclass, \begin{document}, \end{document} invalid, with a confidence
\* from 0.2 to 0.4, whichever of them are missing.
C17_MissingMarkerInvalid ==
    (fn.op = "validated_latex" /\ ~TooShort(fn.text) /\ MissingMarker(fn.text)) =>
       /\ ~fn.out.is_valid
       /\ fn.out.confidence >= 20000
       /\ fn.out.confidence <= 40000

\* A text that lacks only \documentclass and whose body is long enough: 0.3.
C17_Witness ==
    /\ fn.op = "validated_latex"
    /\ ~TooShort(fn.text)
    /\ ~Has(fn.text, "DC")
    /\ Has(fn.text, "BD")
    /\ Has(fn.text, "ED")
    /\ fn.out.confidence = 30000
    /\ ~fn.out.is_valid

ThinBody(t) ==
    \E b, e \in 1..Len(t) :
       /\ b < e
       /\ t[b] = "BD"
       /\ t[e] = "ED"
       /\ \A k \in 1..(b - 1) : t[k] # "BD"
       /\ \A k \in (b + 1)..(e - 1) : t[k] \in {"F10", "NL"}
       /\ Cardinality({k \in (b + 1)..(e - 1) : t[k] = "F10"}) <= 4

\* C18: the LaTeX validator finds a text of at least 100 characters that holds the
\* three markers and whose body between \begin{document} and \end{document} is
\* shorter than 50 characters invalid, with the issue of insufficient content.
C18_ThinBodyInvalid ==
    (/\ fn.op = "validated_latex"
     /\ ~TooShort(fn.text)
     /\ ~MissingMarker(fn.text)
     /\ ThinBody(fn.text)) =>
        /\ ~fn.out.is_valid
        /\ \E k \in 1..Len(fn.out.issues) :
              fn.out.issues[k] = "Insufficient content in document"

\* A document of more than 100 characters whose body holds 10 characters.
C18_Witness ==
    /\ fn.op = "validated_latex"
    /\ fn.text = <<"F100", "DC", "BD", "F10", "ED">>
    /\ ~fn.out.is_valid
    /\ fn.out.confidence = 40000

C29_NoPatternInvalid ==
    (/\ fn.op = "validated_questions"
     /\ ~TooShort(fn.text)
     /\ ~fn.shape.none
     /\ fn.shape.nq = 0
     /\ fn.shape.kw = 0) =>
        /\ ~fn.out.is_valid
        /\ fn.out.should_retry

\* C30: whatever either validator returns, should_retry is true when is_valid is
\* false.
C30_InvalidIsRetryable ==
    /\ Validated => (~fn.out.is_valid => fn.out.should_retry)
    /\ fn.op = "validated_latex_twice" => (~fn.again.is_valid => fn.again.should_retry)

\* C15: every confidence a validator returns, and every confidence of a stage
\* outcome or of a step of the workflow state, lies between 0 and 1.
C15_ConfidenceInUnitInterval ==
    LET Unit(c) == c >= 0 /\ c <= 100000
    IN /\ Validated => Unit(fn.out.confidence)
       /\ fn.op = "validated_latex_twice" => Unit(fn.again.confidence)
       /\ fn.op = "analyzed" => Unit(fn.out.confidence)
       /\ \A k \in 1..Len(workflow_state.steps) : Unit(workflow_state.steps[k].confidence)
       /\ \A i \in 1..Len(attempts) :
             /\ Unit(attempts[i].result.confidence)
             /\ Unit(attempts[i].result.validation_confidence)
       /\ \A a \in Agents : \A k \in 1..Len(history[a]) : Unit(history[a][k].confidence)
       /\ \A r \in {results.q_analysis, results.a_analysis, results.question,
                    results.answer, results.compile} : Unit(r.confidence)

\* A one-page question text with a mark allocation, four options and more than 500
\* characters: the bonuses add up to more than 1 and the confidence is 1.
C15_Witness ==
    /\ fn.op = "validated_questions"
    /\ fn.num_pages = 1
    /\ fn.shape.mk
    /\ fn.shape.op = 4
    /\ fn.shape.nq = 1
    /\ fn.shape.fill = 6
    /\ ~fn.shape.none
    /\ fn.out.confidence = 100000

\* ---------------------------------------------------------------------------
\* The HTTP handler process_paper serving several requests in one working directory
\* ---------------------------------------------------------------------------

\* Requests served at the same time, and the longest upload in blocks.
MaxRequests == 2
MaxUploadBlocks == 2

Requests == 1..MaxRequests

\* The content of an uploaded file: n blocks, each known by the request that sent it.
Upload(r, part, n) == [i \in 1..n |-> [request |-> r, part |-> part]]

\* f.write(data) on a handle opened (and the file truncated) earlier: the data goes
\* to offset 0 of what the file holds by now; what lies beyond the data stays.
\* img.save on page_1.png .. page_n.png of a directory does the same to its pages.
WriteAtStart(old, data) ==
    IF Len(old) > Len(data) THEN data \o SubSeq(old, Len(data) + 1, Len(old)) ELSE data

\* pdf_to_images: the pages convert_from_path finds in the file are saved as
\* tmp/<base_name>/page_i.png, over what the directory holds; the paths returned
\* are those of the pages just saved.
PdfToImages(dir, content) == WriteAtStart(dir, content)

InitService ==
    /\ Idle
    /\ fn = [op |-> "none"]
    /\ \E qn \in [Requests -> 1..MaxUploadBlocks], an \in [Requests -> 1..MaxUploadBlocks] :
          service = [disk |-> NoService.disk,
                     run |-> [r \in Requests |->
                                [pc |-> "received",
                                 question_paper |-> Upload(r, "question", qn[r]),
                                 answer_sheet |-> Upload(r, "answer", an[r]),
                                 question_read |-> <<>>,
                                 answer_read |-> <<>>,
                                 image_paths |-> <<>>]]]

\* process_paper up to its first await: open("temp_question.pdf", "wb") truncates
\* the file, then the coroutine waits for question_paper.read().
OpenQuestion(r) ==
    /\ service.run[r].pc = "received"
    /\ service' = [service EXCEPT !.disk.temp_question = <<>>,
                                  !.run[r].pc = "reading_question"]
    /\ UNCHANGED <<pc, selected_model, q_doc, a_doc, workflow_state, attempt, task, objs,
                   results, history, x, attempts, files, response, fn>>

\* From the first await to the second: the question is written and the file closed,
\* open("temp_answer.pdf", "wb") truncates the answer file, then the coroutine waits
\* for answer_sheet.read().
WriteQuestion(r) ==
    /\ service.run[r].pc = "reading_question"
    /\ service' = [service EXCEPT
                     !.disk.temp_question = WriteAtStart(@, service.run[r].question_paper),
                     !.disk.temp_answer = <<>>,
                     !.run[r].pc = "reading_answer"]
    /\ UNCHANGED <<pc, selected_model, q_doc, a_doc, workflow_state, attempt, task, objs,
                   results, history, x, attempts, files, response, fn>>

\* From the second await to the return: the answer is written, then
\* process_digital_evaluation("temp_question.pdf", "temp_answer.pdf") runs on a new
\* orchestrator. The agents it calls read the two files by their fixed names
\* (pdf_to_images) without waiting in between; the answer sheet is read only after
\* the question paper gave at least one page.
ProcessDigitalEvaluation(r) ==
    /\ service.run[r].pc = "reading_answer"
    /\ LET answer == WriteAtStart(service.disk.temp_answer, service.run[r].answer_sheet)
           question == service.disk.temp_question
           analysed == question # <<>>
       IN service' = [service EXCEPT
                        !.disk.temp_answer = answer,
                        !.disk.tmp_question = PdfToImages(@, question),
                        !.disk.tmp_answer = IF analysed THEN PdfToImages(@, answer) ELSE @,
                        !.run[r].question_read = question,
                        !.run[r].answer_read = IF analysed THEN answer ELSE <<>>,
                        !.run[r].image_paths = question,
                        !.run[r].pc = "returned"]
    /\ UNCHANGED <<pc, selected_model, q_doc, a_doc, workflow_state, attempt, task, objs,
                   results, history, x, attempts, files, response, fn>>

NextService ==
    \E r \in Requests :
       \/ OpenQuestion(r)
       \/ WriteQuestion(r)
       \/ ProcessDigitalEvaluation(r)

SpecService == InitService /\ [][NextService]_vars

\* C20: two workflows that run at the same time share no mutable state: under every
\* interleaving at the awaits, a request that returned has read exactly the question
\* paper and the answer sheet that were uploaded with it.
C20_RunsReadOwnDocuments ==
    \A r \in DOMAIN service.run :
       service.run[r].pc = "returned" =>
          /\ service.run[r].question_read = service.run[r].question_paper
          /\ service.run[r].answer_read = service.run[r].answer_sheet

====
